---- MODULE Spec2Model ----
(***************************************************************************)
(* Model of pomodoro_rs (src/src/main.rs): the MyApp timer engine driven   *)
(* by eframe's update() callback, and the countdown threads it spawns.     *)
(*                                                                         *)
(* The presentation thread executes update() over and over.  One frame is  *)
(* modelled as two steps: Poll (lines 164-189, the expiry detection) and   *)
(* one Ui step (lines 190-203: the screen with at most one click of the    *)
(* pointer, then the worker clean-up).  Steps of the countdown threads     *)
(* interleave with them.  A join on a thread that has not exited parks the *)
(* presentation thread (ui_pc = "join") until that thread exits.           *)
(*                                                                         *)
(* Arcs.  MyApp holds three Arcs (time_sec, pause_flag, thread_done_flag)  *)
(* and every closure captures clones of the three MyApp held when it was   *)
(* spawned.  MyApp never mutates the Mutex behind time_sec: it replaces    *)
(* the Arc (lines 154, 177, 182, 186, 128), and line 128 replaces the two  *)
(* flag Arcs as well.  A closure's Arc is therefore either the one MyApp   *)
(* holds now ("shared") or one MyApp has dropped ("dropped").  The model   *)
(* keeps the values behind MyApp's Arcs (time_sec, pause_flag,             *)
(* thread_done_flag).  Of a dropped pause_flag it keeps the value, which   *)
(* nobody can change any more; a dropped counter or completion flag is     *)
(* written by closures only and read by nothing that acts on it, so its    *)
(* value is not kept.                                                      *)
(***************************************************************************)
EXTENDS Naturals, FiniteSets, Bags

\* ---- bounds of the model ------------------------------------------------
\* Number of threads, running or exited with a JoinHandle left, that exist
\* at a time: ClickPlay spawns no thread beyond it.
MaxWorkers == 2
\* Work phases that expire between two builds of MyApp: cur_lap and cur_loop
\* (a u8 each) are explored as far as this many expiries take them.
MaxLaps == 4
\* Ticks of the countdown per configured minute (60 in the source).
TicksPerMin == 1

\* ---- program constants --------------------------------------------------
DefaultLapMin == 25
DefaultRestLapMin == 5
DefaultRestLoopMin == 30
LapsPerLoop == 3

\* Values the DragValue widgets (range 1..=59) are moved to in the model.
MinuteChoices == {1}

VARIABLES
    app,              \* the MyApp struct without its three Arcs
    time_sec,         \* the u32 behind MyApp's time_sec Arc
    pause_flag,       \* the bool behind MyApp's pause_flag Arc
    thread_done_flag, \* the bool behind MyApp's thread_done_flag Arc
    threads,          \* the spawned closures, a bag: position, captured
                      \* Arcs, and where the thread's JoinHandle is
    ui_pc,            \* position of the presentation thread in update()
    notifications,    \* Notification::show() calls since MyApp was built
    expired,          \* times a Work countdown reached 0 since MyApp was built
    drift             \* decrements of MyApp's counter since the pause button
                      \* was last clicked, counted until the next click on play

vars == <<app, time_sec, pause_flag, thread_done_flag, threads, ui_pc,
          notifications, expired, drift>>

\* The closure is between its spawn and the end of its last statement.
Live(t) == t.pc \in {"loop", "sleep", "finish"}

LiveWorkers == BagCardinality([t \in {x \in DOMAIN threads : Live(x)} |-> threads[t]])

Put(th, t) == th (+) SetToBag({t})
Take(th, t) == th (-) SetToBag({t})

\* A thread that has exited: its Arcs are dropped.  The record stays while a
\* JoinHandle names the thread (h: "child_process" or "join").
Exited(h) ==
    [pc |-> "exited", thread_time |-> "none", pause_flag |-> "none",
     handle |-> h]

\* MyApp::default(): the field values (the Arcs' values are set with them).
DefaultApp ==
    [app_state |-> "STEADY", run_state |-> "LAP", running |-> FALSE,
     pause |-> TRUE, cur_lap |-> 0, cur_loop |-> 0,
     lap_dur_min |-> DefaultLapMin, rest_lap_min |-> DefaultRestLapMin,
     rest_loop_min |-> DefaultRestLoopMin, child_process |-> "None"]

\* The thread MyApp.child_process names.
Child(th) == CHOOSE t \in DOMAIN th : t.handle = "child_process"

\* MyApp.child_process is overwritten or dropped: the thread it named is
\* detached, and nothing is left of it if it has exited.
DetachOne(t) == IF t.handle = "child_process"
                THEN [t EXCEPT !.handle = "detached"] ELSE t

DropHandle(th) ==
    LET d == BagOfAll(DetachOne, th)
    IN [t \in {x \in DOMAIN d : x.pc # "exited"} |-> d[t]]

\* MyApp replaces its time_sec Arc: the closures keep the old one.
DropTimeOne(t) == IF Live(t) THEN [t EXCEPT !.thread_time = "dropped"] ELSE t

\* A write into the counter in place: every thread stays bound to it.
DropTime_InPlace(th) == th

DropTime(th) == BagOfAll(DropTimeOne, th)

\* MyApp replaces its two flag Arcs: the closures keep the old ones, and the
\* old pause_flag keeps the value it had.
DropFlagsOne(t) ==
    IF Live(t) /\ t.pause_flag = "shared"
    THEN [t EXCEPT !.pause_flag =
             IF pause_flag THEN "dropped_true" ELSE "dropped_false"]
    ELSE t

DropFlags(th) == BagOfAll(DropFlagsOne, th)

Init ==
    /\ app = DefaultApp
    /\ time_sec = DefaultLapMin * TicksPerMin
    /\ pause_flag = FALSE
    /\ thread_done_flag = FALSE
    /\ threads = EmptyBag
    /\ ui_pc = "poll"
    /\ notifications = 0
    /\ expired = 0
    /\ drift = 0

\* ---- update(), lines 164-189: expiry detection --------------------------
\* `time <= 0` on a u32 is `time = 0`.
WorkExpiry(a, time) ==
    a.running /\ ~a.pause /\ time = 0 /\ a.run_state = "LAP"

RestExpiry(a, time) ==
    a.running /\ ~a.pause /\ time = 0 /\ a.run_state # "LAP"

\* PollResult with the lap test off by one.
PollResult_LapOffByOne(a, time) ==
    IF WorkExpiry(a, time) THEN
        IF a.cur_lap + 1 >= LapsPerLoop
        THEN [app |-> [a EXCEPT !.pause = TRUE, !.run_state = "RestLoop",
                                !.cur_lap = 0, !.cur_loop = a.cur_loop + 1],
              arc |-> TRUE, time |-> a.rest_loop_min * TicksPerMin,
              notify |-> TRUE]
        ELSE [app |-> [a EXCEPT !.pause = TRUE, !.run_state = "RestLap",
                                !.cur_lap = a.cur_lap + 1],
              arc |-> TRUE, time |-> a.rest_lap_min * TicksPerMin,
              notify |-> TRUE]
    ELSE IF RestExpiry(a, time)
    THEN [app |-> [a EXCEPT !.run_state = "LAP"],
          arc |-> TRUE, time |-> a.lap_dur_min * TicksPerMin,
          notify |-> FALSE]
    ELSE [app |-> a, arc |-> FALSE, time |-> time, notify |-> FALSE]

\* PollResult with the notification sent at every expiry.
PollResult_NotifyAnyExpiry(a, time) ==
    IF WorkExpiry(a, time) THEN
        IF a.cur_lap + 1 > LapsPerLoop
        THEN [app |-> [a EXCEPT !.pause = TRUE, !.run_state = "RestLoop",
                                !.cur_lap = 0, !.cur_loop = a.cur_loop + 1],
              arc |-> TRUE, time |-> a.rest_loop_min * TicksPerMin,
              notify |-> TRUE]
        ELSE [app |-> [a EXCEPT !.pause = TRUE, !.run_state = "RestLap",
                                !.cur_lap = a.cur_lap + 1],
              arc |-> TRUE, time |-> a.rest_lap_min * TicksPerMin,
              notify |-> TRUE]
    ELSE IF RestExpiry(a, time)
    THEN [app |-> [a EXCEPT !.run_state = "LAP"],
          arc |-> TRUE, time |-> a.lap_dur_min * TicksPerMin,
          notify |-> TRUE]
    ELSE [app |-> a, arc |-> FALSE, time |-> time, notify |-> FALSE]

\* PollResult with a rest expiry that pauses like a Work expiry.
PollResult_RestPauses(a, time) ==
    IF WorkExpiry(a, time) THEN
        IF a.cur_lap + 1 > LapsPerLoop
        THEN [app |-> [a EXCEPT !.pause = TRUE, !.run_state = "RestLoop",
                                !.cur_lap = 0, !.cur_loop = a.cur_loop + 1],
              arc |-> TRUE, time |-> a.rest_loop_min * TicksPerMin,
              notify |-> TRUE]
        ELSE [app |-> [a EXCEPT !.pause = TRUE, !.run_state = "RestLap",
                                !.cur_lap = a.cur_lap + 1],
              arc |-> TRUE, time |-> a.rest_lap_min * TicksPerMin,
              notify |-> TRUE]
    ELSE IF RestExpiry(a, time)
    THEN [app |-> [a EXCEPT !.run_state = "LAP", !.pause = TRUE],
          arc |-> TRUE, time |-> a.lap_dur_min * TicksPerMin,
          notify |-> FALSE]
    ELSE [app |-> a, arc |-> FALSE, time |-> time, notify |-> FALSE]

\* PollResult without the reset of cur_lap when a loop is complete.
PollResult_NoLapReset(a, time) ==
    IF WorkExpiry(a, time) THEN
        IF a.cur_lap + 1 > LapsPerLoop
        THEN [app |-> [a EXCEPT !.pause = TRUE, !.run_state = "RestLoop",
                                !.cur_lap = a.cur_lap + 1,
                                !.cur_loop = a.cur_loop + 1],
              arc |-> TRUE, time |-> a.rest_loop_min * TicksPerMin,
              notify |-> TRUE]
        ELSE [app |-> [a EXCEPT !.pause = TRUE, !.run_state = "RestLap",
                                !.cur_lap = a.cur_lap + 1],
              arc |-> TRUE, time |-> a.rest_lap_min * TicksPerMin,
              notify |-> TRUE]
    ELSE IF RestExpiry(a, time)
    THEN [app |-> [a EXCEPT !.run_state = "LAP"],
          arc |-> TRUE, time |-> a.lap_dur_min * TicksPerMin,
          notify |-> FALSE]
    ELSE [app |-> a, arc |-> FALSE, time |-> time, notify |-> FALSE]

\* Lines 165-189.  app: the fields afterwards; arc: whether time_sec was
\* replaced by a new Arc, and time: the value behind MyApp's time_sec
\* afterwards; notify: whether Notification::show() was called.
PollResult(a, time) ==
    IF WorkExpiry(a, time) THEN
        IF a.cur_lap + 1 > LapsPerLoop
        THEN [app |-> [a EXCEPT !.pause = TRUE, !.run_state = "RestLoop",
                                !.cur_lap = 0, !.cur_loop = a.cur_loop + 1],
              arc |-> TRUE, time |-> a.rest_loop_min * TicksPerMin,
              notify |-> TRUE]
        ELSE [app |-> [a EXCEPT !.pause = TRUE, !.run_state = "RestLap",
                                !.cur_lap = a.cur_lap + 1],
              arc |-> TRUE, time |-> a.rest_lap_min * TicksPerMin,
              notify |-> TRUE]
    ELSE IF RestExpiry(a, time)
    THEN [app |-> [a EXCEPT !.run_state = "LAP"],
          arc |-> TRUE, time |-> a.lap_dur_min * TicksPerMin,
          notify |-> FALSE]
    ELSE [app |-> a, arc |-> FALSE, time |-> time, notify |-> FALSE]

Poll ==
    /\ ui_pc = "poll"
    /\ WorkExpiry(app, time_sec) => notifications < MaxLaps
    /\ LET r == PollResult(app, time_sec)
       IN /\ app' = r.app
          /\ time_sec' = r.time
          /\ threads' = IF r.arc THEN DropTime(threads) ELSE threads
          /\ notifications' = notifications + (IF r.notify THEN 1 ELSE 0)
    /\ ui_pc' = "ui"
    /\ UNCHANGED <<pause_flag, thread_done_flag, expired, drift>>

\* ---- update(), lines 197-203: worker clean-up ---------------------------
\* a, done and th are what the screen code left behind.  child.join()
\* returns at once on an exited thread and parks the presentation thread
\* otherwise, before line 202 is reached.
Cleanup(a, done, th) ==
    LET taken == done /\ a.child_process = "Some"
        parked == taken /\ Child(th).pc # "exited"
    IN /\ app' = IF taken THEN [a EXCEPT !.child_process = "None"] ELSE a
       /\ thread_done_flag' = IF parked THEN done ELSE FALSE
       /\ ui_pc' = IF parked THEN "join" ELSE "poll"
       /\ threads' = IF ~taken THEN th
                     ELSE IF parked
                     THEN Put(Take(th, Child(th)),
                              [Child(th) EXCEPT !.handle = "join"])
                     ELSE Take(th, Child(th))

\* The parked join() returns; line 202 then clears the flag.
JoinReturn ==
    /\ ui_pc = "join"
    /\ Exited("join") \in DOMAIN threads
    /\ ui_pc' = "poll"
    /\ thread_done_flag' = FALSE
    /\ threads' = Take(threads, Exited("join"))
    /\ UNCHANGED <<app, time_sec, pause_flag, notifications, expired, drift>>

\* ---- steady(), lines 74-132 ---------------------------------------------
\* A frame in which no widget is used.
UiNoClick ==
    /\ ui_pc = "ui"
    /\ Cleanup(app, thread_done_flag, threads)
    /\ UNCHANGED <<time_sec, pause_flag, notifications, expired, drift>>

\* PlayApp without line 89.
PlayApp_NotRunning(a) ==
    [a EXCEPT !.pause = FALSE, !.child_process = "Some"]

\* Lines 88-89 and 111: the fields after a click on the play button.
PlayApp(a) ==
    [a EXCEPT !.pause = FALSE, !.running = TRUE, !.child_process = "Some"]

\* Lines 91-93 and 97: the closure with the clones of MyApp's Arcs.
Spawned ==
    [pc |-> "loop", thread_time |-> "shared", pause_flag |-> "shared",
     handle |-> "child_process"]

\* Line 111 drops the JoinHandle child_process held before.
PlayThreads(th) == Put(DropHandle(th), Spawned)

ClickPlay ==
    /\ ui_pc = "ui"
    /\ app.app_state = "STEADY"
    /\ app.pause
    /\ BagCardinality(PlayThreads(threads)) <= MaxWorkers
    /\ Cleanup(PlayApp(app), thread_done_flag, PlayThreads(threads))
    /\ pause_flag' = FALSE
    /\ drift' = 0
    /\ UNCHANGED <<time_sec, notifications, expired>>

\* Lines 115-117.
PauseApp(a) == [a EXCEPT !.pause = TRUE]

ClickPause ==
    /\ ui_pc = "ui"
    /\ app.app_state = "STEADY"
    /\ ~app.pause
    /\ Cleanup(PauseApp(app), thread_done_flag, threads)
    /\ pause_flag' = TRUE
    /\ drift' = 0
    /\ UNCHANGED <<time_sec, notifications, expired>>

\* Lines 121-124.
ClickSettings ==
    /\ ui_pc = "ui"
    /\ app.app_state = "STEADY"
    /\ ~app.running
    /\ Cleanup([app EXCEPT !.app_state = "SETTING"], thread_done_flag, threads)
    /\ UNCHANGED <<time_sec, pause_flag, notifications, expired, drift>>

\* Lines 125-129: *self = MyApp::default() replaces every field; the old
\* Arcs and the old JoinHandle are dropped, which detaches the thread.
StopApp(a) == DefaultApp

StopTime(a) == DefaultLapMin * TicksPerMin

ClickStop ==
    /\ ui_pc = "ui"
    /\ app.app_state = "STEADY"
    /\ app.running
    /\ app.pause
    /\ Cleanup(StopApp(app), FALSE, DropFlags(DropTime(DropHandle(threads))))
    /\ time_sec' = StopTime(app)
    /\ pause_flag' = FALSE
    /\ notifications' = 0
    /\ expired' = 0
    /\ drift' = 0

\* ---- setting(), lines 133-158 -------------------------------------------
\* A DragValue writes the field it is bound to while it is dragged.
DragApp(a, field, m) ==
    CASE field = "lap_dur_min" -> [a EXCEPT !.lap_dur_min = m]
      [] field = "rest_lap_min" -> [a EXCEPT !.rest_lap_min = m]
      [] field = "rest_loop_min" -> [a EXCEPT !.rest_loop_min = m]

SettingDrag ==
    /\ ui_pc = "ui"
    /\ app.app_state = "SETTING"
    /\ \E field \in {"lap_dur_min", "rest_lap_min", "rest_loop_min"} :
         \E m \in MinuteChoices :
            Cleanup(DragApp(app, field, m), thread_done_flag, threads)
    /\ UNCHANGED <<time_sec, pause_flag, notifications, expired, drift>>

\* Lines 153-156.
ConfirmApp(a) == [a EXCEPT !.app_state = "STEADY"]

\* Confirm that restores the default lap duration.
ConfirmTime_Default(a) == DefaultLapMin * TicksPerMin

ConfirmTime(a) == a.lap_dur_min * TicksPerMin

SettingConfirm ==
    /\ ui_pc = "ui"
    /\ app.app_state = "SETTING"
    /\ Cleanup(ConfirmApp(app), thread_done_flag, DropTime(threads))
    /\ time_sec' = ConfirmTime(app)
    /\ UNCHANGED <<pause_flag, notifications, expired, drift>>

\* ---- the spawned closure, lines 97-109 ----------------------------------
\* The value the closure loads from its pause_flag Arc.
LoadPause(t) ==
    IF t.pause_flag = "shared" THEN pause_flag
    ELSE t.pause_flag = "dropped_true"

\* The loop check with the flag ignored.
AfterLoopCheck_NeverBreaks(flag) == "sleep"

\* Lines 99-101: the flag is read at the top of the loop, before the sleep.
AfterLoopCheck(flag) == IF flag THEN "finish" ELSE "sleep"

WorkerLoop(t) ==
    /\ t.pc = "loop"
    /\ threads' = Put(Take(threads, t),
                      [t EXCEPT !.pc = AfterLoopCheck(LoadPause(t))])
    /\ UNCHANGED <<app, time_sec, pause_flag, thread_done_flag, ui_pc,
                   notifications, expired, drift>>

\* The decrement without the test of line 104.
Decrement_Unguarded(t) == t - 1

\* Lines 104-106.
Decrement(t) == IF t > 0 THEN t - 1 ELSE t

\* Lines 102-106: the sleep ends, the mutex is taken and the value counted
\* down; the guard is released at the end of the loop body.
WorkerTick(t) ==
    /\ t.pc = "sleep"
    /\ threads' = Put(Take(threads, t), [t EXCEPT !.pc = "loop"])
    /\ IF t.thread_time = "shared"
       THEN /\ time_sec' = Decrement(time_sec)
            /\ expired' = IF app.run_state = "LAP" /\ time_sec = 1
                          THEN expired + 1 ELSE expired
            /\ drift' = IF pause_flag /\ time_sec' < time_sec
                        THEN drift + 1 ELSE drift
       ELSE UNCHANGED <<time_sec, expired, drift>>
    /\ UNCHANGED <<app, pause_flag, thread_done_flag, ui_pc, notifications>>

\* Line 108 is the closure's last statement: the thread has exited after it,
\* and its Arcs are dropped.
WorkerFinish(t) ==
    /\ t.pc = "finish"
    /\ thread_done_flag' =
          IF t.pause_flag = "shared" THEN TRUE ELSE thread_done_flag
    /\ threads' = IF t.handle = "detached" THEN Take(threads, t)
                  ELSE Put(Take(threads, t), Exited(t.handle))
    /\ UNCHANGED <<app, time_sec, pause_flag, ui_pc, notifications, expired,
                   drift>>

Next ==
    \/ Poll
    \/ UiNoClick
    \/ ClickPlay
    \/ ClickPause
    \/ ClickSettings
    \/ ClickStop
    \/ SettingDrag
    \/ SettingConfirm
    \/ JoinReturn
    \/ \E t \in DOMAIN threads : WorkerLoop(t)
    \/ \E t \in DOMAIN threads : WorkerTick(t)
    \/ \E t \in DOMAIN threads : WorkerFinish(t)

Spec == Init /\ [][Next]_vars

\* ---- the claims -----------------------------------------------------------
\* The Poll step of a frame, and the states it finds an expiry in.
PollStep == ui_pc = "poll" /\ ui_pc' = "ui"

AtWorkExpiry ==
    app.running /\ ~app.pause /\ app.run_state = "LAP" /\ time_sec = 0

AtRestExpiry ==
    app.running /\ ~app.pause /\ app.run_state \in {"RestLap", "RestLoop"}
    /\ time_sec = 0

\* The click on the stop button is the only step that clears `running`.
StopStep == app.running /\ ~app'.running

\* C1: at every instant at most one spawned thread has not yet exited.
C1_AtMostOneLiveWorker == LiveWorkers <= 1

\* C2: when a rest phase expires, the state Poll leaves has a live thread
\* bound to the new remaining_sec (the Arc MyApp now holds), so that the
\* countdown goes on without a click on play.
C2_RestExpiryKeepsCounting ==
    [][(PollStep /\ AtRestExpiry) =>
          \E t \in DOMAIN threads' : Live(t) /\ t.thread_time = "shared"]_vars

\* C3: the thread update() joins at line 200 has already exited.
C3_JoinOnExitedThread ==
    \A t \in DOMAIN threads : t.handle = "join" => t.pc = "exited"

\* C4: Poll at a Work expiry increments cur_lap; past 3 it sets cur_lap = 0,
\* adds exactly 1 to cur_loop and enters RestLoop with the loop rest time,
\* otherwise it enters RestLap with the lap rest time; pause becomes true
\* either way.  Hence every fourth Work expiry since MyApp was built ends
\* with cur_lap = 0, in RestLoop, with one more loop counted.
C4_WorkExpiryTransition ==
    [][(PollStep /\ AtWorkExpiry) =>
          /\ app'.pause
          /\ app'.running
          /\ IF app.cur_lap + 1 > 3
             THEN /\ app'.cur_lap = 0
                  /\ app'.cur_loop = app.cur_loop + 1
                  /\ app'.run_state = "RestLoop"
                  /\ time_sec' = app.rest_loop_min * TicksPerMin
             ELSE /\ app'.cur_lap = app.cur_lap + 1
                  /\ app'.cur_loop = app.cur_loop
                  /\ app'.run_state = "RestLap"
                  /\ time_sec' = app.rest_lap_min * TicksPerMin
          /\ notifications' % 4 = 0 <=> app'.run_state = "RestLoop"
          /\ notifications' % 4 = 0 =>
                app'.cur_lap = 0 /\ 4 * app'.cur_loop = notifications']_vars

\* The fourth Work phase in a row has just expired.
C4_Witness ==
    /\ ui_pc = "ui"
    /\ notifications = 4
    /\ app.run_state = "RestLoop"
    /\ app.cur_lap = 0
    /\ app.cur_loop = 1
    /\ app.pause

\* C5: every Work expiry is notified exactly once and counted as exactly one
\* lap, however Poll steps, thread steps and clicks interleave: the
\* notifications shown equal the Work countdowns that reached 0, less the one
\* Poll has not seen yet, and equal the laps counted; a rest expiry notifies
\* nothing.
C5_ExactlyOnceNotification ==
    /\ expired = notifications
                 + (IF app.run_state = "LAP" /\ time_sec = 0 THEN 1 ELSE 0)
    /\ notifications = 4 * app.cur_loop + app.cur_lap

\* Two Work phases have expired and were notified once each, the rest
\* between them expired without a notification, and play was clicked again
\* before the rest countdown moved.
C5_Witness ==
    /\ notifications = 2
    /\ expired = 2
    /\ app.run_state = "RestLap"
    /\ ~app.pause
    /\ ui_pc = "poll"
    /\ time_sec = app.rest_lap_min * TicksPerMin

\* C6: while the cancellation flag set by pause stays set (no play since),
\* remaining_sec does not change.
C6_NoChangeAfterPause ==
    [][(pause_flag /\ pause_flag') => time_sec' = time_sec]_vars

\* C7: after pause, and until the next play, remaining_sec decreases by at
\* most 1 in total.
C7_AtMostOneTickAfterPause == pause_flag => drift <= 1

\* C8: Poll at a Work expiry cancels the threads that were counting: every
\* thread alive afterwards finds its cancellation flag set.
C8_WorkExpiryCancelsWorker ==
    [][(PollStep /\ AtWorkExpiry) =>
          \A t \in DOMAIN threads' :
             Live(t) => \/ t.pause_flag = "dropped_true"
                        \/ t.pause_flag = "shared" /\ pause_flag']_vars

\* C9: in the state right after stop no thread spawned before it is alive.
C9_StopJoinsWorker ==
    [][StopStep => \A t \in DOMAIN threads' : ~Live(t)]_vars

\* C10: stop restores the default state for the configuration in force
\* before it: Work, both counts 0, not running, paused, and remaining_sec
\* equal to the configured lap duration.
C10_StopRestoresState ==
    [][StopStep =>
          /\ app'.run_state = "LAP"
          /\ app'.cur_lap = 0
          /\ app'.cur_loop = 0
          /\ ~app'.running
          /\ app'.pause
          /\ time_sec' = app.lap_dur_min * TicksPerMin]_vars

\* ---- play/pause cycling ----------------------------------------------------
\* The engine driven by the play and pause buttons alone: frames without a
\* click, clicks on play and pause, and the steps of the threads.
PlayPauseNext ==
    \/ Poll
    \/ UiNoClick
    \/ ClickPlay
    \/ ClickPause
    \/ JoinReturn
    \/ \E t \in DOMAIN threads : WorkerLoop(t)
    \/ \E t \in DOMAIN threads : WorkerTick(t)
    \/ \E t \in DOMAIN threads : WorkerFinish(t)

\* eframe calls update() again and again (request_repaint_after, line 163),
\* a join() returns once its thread has exited, and the scheduler lets a
\* thread that can run do so.  No click is ever bound to happen.
Scheduling ==
    /\ WF_vars(Poll)
    /\ WF_vars(UiNoClick)
    /\ WF_vars(JoinReturn)
    /\ WF_vars(\E t \in DOMAIN threads : WorkerLoop(t))
    /\ WF_vars(\E t \in DOMAIN threads : WorkerTick(t))
    /\ WF_vars(\E t \in DOMAIN threads : WorkerFinish(t))

PlayPauseSpec == Init /\ [][PlayPauseNext]_vars /\ Scheduling

\* No thread is alive, no JoinHandle is stored, the completion flag is clear.
Reclaimed ==
    /\ threads = EmptyBag
    /\ app.child_process = "None"
    /\ ~thread_done_flag

\* C11: when a sequence of play and pause clicks ends with pause (from some
\* point on the cancellation flag stays set: no play follows), the system
\* reaches, and then stays in, a state where no thread is alive, the stored
\* handle is empty and the completion flag is cleared.
C11_NoWorkerLeak == <>[]pause_flag => <>[]Reclaimed

\* After play and a final pause, everything has been reclaimed.
C11_Witness == pause_flag /\ app.running /\ app.pause /\ Reclaimed

\* C12: Poll at a rest expiry sets the phase to Work and remaining_sec to the
\* configured lap duration, shows no notification, and leaves running, pause
\* (false) and both counters as they were.
C12_RestExpiryTransition ==
    [][(PollStep /\ AtRestExpiry) =>
          /\ app'.run_state = "LAP"
          /\ time_sec' = app.lap_dur_min * TicksPerMin
          /\ app'.running
          /\ ~app'.pause
          /\ app'.cur_lap = app.cur_lap
          /\ app'.cur_loop = app.cur_loop
          /\ notifications' = notifications]_vars

\* The first lap rest has just expired.
C12_Witness ==
    /\ ui_pc = "ui"
    /\ app.run_state = "LAP"
    /\ app.cur_lap = 1
    /\ app.running
    /\ ~app.pause
    /\ time_sec = app.lap_dur_min * TicksPerMin

\* C13: in every state, running = false implies pause = true.
C13_StoppedIsPaused == ~app.running => app.pause

\* MyApp was rebuilt by stop while a thread was still around.
C13_Witness == ~app.running /\ app.pause /\ threads # EmptyBag

\* C14: in every state 0 <= cur_lap <= 3, and cur_lap = 0 in RestLoop.
C14_LapCountRange ==
    /\ app.cur_lap \in 0..3
    /\ app.run_state = "RestLoop" => app.cur_lap = 0

\* The loop rest is being counted down after the fourth lap.
C14_Witness ==
    app.run_state = "RestLoop" /\ app.cur_lap = 0 /\ ~app.pause /\ expired = 4

\* C15: the settings screen is open only while running = false; while it is
\* open no step changes running, pause, the phase or the counters (no play,
\* pause or stop happens); and confirm sets remaining_sec to the lap duration
\* and leaves the engine stopped, paused, in Work, with both counters 0.
C15_ConfigureOnlyWhenStopped ==
    [][/\ app'.app_state = "SETTING" => ~app'.running
       /\ app.app_state = "SETTING" =>
             /\ ~app'.running
             /\ app'.pause
             /\ app'.run_state = "LAP"
             /\ app'.cur_lap = 0
             /\ app'.cur_loop = 0
             /\ pause_flag' = pause_flag
             /\ threads' \in {threads} \cup
                   {Put(Take(threads, t), [t EXCEPT !.pc = p]) :
                       t \in DOMAIN threads, p \in {"loop", "sleep", "finish"}}
                   \cup {Take(threads, t) : t \in DOMAIN threads}
       /\ (app.app_state = "SETTING" /\ app'.app_state = "STEADY") =>
             time_sec' = app.lap_dur_min * TicksPerMin]_vars

\* A lap duration of one minute has been confirmed.
C15_Witness ==
    /\ app.app_state = "STEADY"
    /\ ~app.running
    /\ app.lap_dur_min = 1
    /\ time_sec = TicksPerMin

\* C16: remaining_sec stays within 0..59*60, and a thread's decrement of the
\* counter MyApp holds takes exactly 1 off a value above 0 and nothing off 0,
\* also when several threads count the same counter down.
C16_NoUnderflow ==
    [][/\ time_sec' \in 0..(59 * TicksPerMin)
       /\ \A t \in DOMAIN threads :
            (/\ t.pc = "sleep"
             /\ t.thread_time = "shared"
             /\ threads' = Put(Take(threads, t), [t EXCEPT !.pc = "loop"]))
            => time_sec' = IF time_sec > 0 THEN time_sec - 1 ELSE 0]_vars

\* Two threads hold the counter, which has reached 0, and one is about to
\* decrement again.
C16_Witness ==
    /\ time_sec = 0
    /\ \E t \in DOMAIN threads :
          t.pc = "sleep" /\ t.thread_time = "shared"
    /\ BagCardinality([t \in {x \in DOMAIN threads :
                                 Live(x) /\ x.thread_time = "shared"}
                         |-> threads[t]]) = 2

\* C17: every call of update() returns: whenever the join of lines 197-203
\* waits, the joined thread has left its loop or will leave it, because it has
\* finished or its pause flag is set.
C17_UpdateReturns ==
    ui_pc = "join" =>
        \A t \in DOMAIN threads :
            t.handle = "join" => (t.pc \in {"finish", "exited"} \/ LoadPause(t))

\* C18: at most one live thread holds the counter that MyApp currently holds.
C18_OneWorkerPerCounter ==
    \A t \in DOMAIN threads :
        (Live(t) /\ t.thread_time = "shared") => threads[t] = 1 /\
            \A u \in DOMAIN threads :
                (Live(u) /\ u.thread_time = "shared") => u = t

\* C19: lap_dur_min, rest_lap_min and rest_loop_min change only in a step taken
\* on the settings screen.
C19_ConfigOnlyInSettings ==
    [][app.app_state # "SETTING" =>
          /\ app'.lap_dur_min = app.lap_dur_min
          /\ app'.rest_lap_min = app.rest_lap_min
          /\ app'.rest_loop_min = app.rest_loop_min]_vars

\* MyApp waits for play: after a Work expiry (running, pause set without the
\* pause flag) or after stop or at start (not running).
AwaitsPlay == app.pause /\ ~pause_flag

\* C20: a value written into time_sec by update(), confirm or stop is not
\* altered by a thread spawned before the write.  While MyApp waits for play
\* after a Work expiry, time_sec is the rest duration of the phase; after stop
\* it is the default lap duration; and no step other than stop and confirm
\* changes it until play is clicked.
C20_WrittenValueKept ==
    [][/\ (AwaitsPlay /\ app'.pause /\ app'.running = app.running
              /\ app'.app_state = app.app_state)
          => time_sec' = time_sec
       /\ (AwaitsPlay' /\ app'.running /\ app'.run_state = "RestLap")
          => time_sec' = app'.rest_lap_min * TicksPerMin
       /\ (AwaitsPlay' /\ app'.running /\ app'.run_state = "RestLoop")
          => time_sec' = app'.rest_loop_min * TicksPerMin
       /\ (app.running /\ ~app'.running)
          => time_sec' = DefaultLapMin * TicksPerMin]_vars

\* MyApp waits for play after a Work expiry while the thread of the expired
\* lap is still counting.
C20_Witness ==
    /\ AwaitsPlay
    /\ app.running
    /\ app.run_state = "RestLap"
    /\ ui_pc = "poll"
    /\ \E t \in DOMAIN threads :
          t.pc = "sleep" /\ t.thread_time = "dropped"

====
